---- MODULE Spec2Model ----
(***************************************************************************)
(* Session state of the multi-file online compiler front-end               *)
(* (src/app/page.jsx, component Home, lines 21-535) together with the      *)
(* rename flow of the tab bar (src/unnamed/part_001, FileTabs).            *)
(*                                                                         *)
(* Conventions                                                             *)
(*  - A file name is the sequence of its dot-separated components, i.e.    *)
(*    the value of name.split('.'): "main.js" is <<"main","js">>, a name   *)
(*    without a dot is a one-element sequence.                             *)
(*  - An optional value (null, undefined, a missing storage key) is the    *)
(*    empty sequence; a present value v is <<v>>.                          *)
(*  - One action is one event handler together with the re-render and the  *)
(*    effects it triggers (React flushes them before the next event), so   *)
(*    every state of the model is a settled state.  handleRun is the only  *)
(*    handler that is suspended (await) and is split accordingly.          *)
(***************************************************************************)
EXTENDS Integers, Sequences, FiniteSets, TLC

VARIABLES
    mounted,        \* useState(false), set by the init effect
    crashed,        \* a render threw (files is undefined): the tree is gone
    theme,          \* 'dark' | 'light'
    language,       \* global language selector
    files,          \* ordered sequence of File records
    activeFileId,   \* id of the active file
    testCases,      \* ordered sequence of TestCase records
    history,        \* execution history, newest first
    isLoading,      \* the in-flight flag of handleRun
    keydownLanguage,\* language captured by the registered keydown handler
    runs,           \* suspended handleRun invocations (closure + results)
    runCount,       \* number of handleRun invocations so far
    storage,        \* localStorage: key -> optional value
    now,            \* the clock read by Date.now()
    editingId,      \* FileTabs: id of the tab in edit mode, null when none
    stdin,          \* the standalone input text of single-file mode
    output,         \* the single output string of single-file mode, null at first
    requests,       \* the requests single-file runs have sent to the judge
    last            \* the operation of the last step and its arguments

vars == <<mounted, crashed, theme, language, files, activeFileId, testCases,
          history, isLoading, keydownLanguage, runs, runCount, storage, now,
          editingId, stdin, output, requests, last>>

-----------------------------------------------------------------------------
(* Bounds of the model *)

MaxFiles == 2
MaxClock == 3
MaxSessionRuns == 1
MaxRuns == 3
MaxInFlight == 2
PastRuns == 9
MaxCases == 2

(* Program constants *)

HistoryCap == 10
AcceptedId == 3

-----------------------------------------------------------------------------
(* Optional values *)

None == <<>>
Some(v) == <<v>>

(* A falsy string for  if (x), x || y  *)
Falsy(s) == s = ""

-----------------------------------------------------------------------------
(* Language table *)

extensionMap ==
    [javascript |-> "js", python |-> "py", cpp |-> "cpp", java |-> "java", c |-> "c"]

getExtensionFromLanguage(lang) ==
    IF lang \in DOMAIN extensionMap THEN extensionMap[lang] ELSE "txt"

extensionToLanguage ==
    [js |-> "javascript", py |-> "python", cpp |-> "cpp", java |-> "java", c |-> "c"]

validExtensions == {"js", "py", "cpp", "java", "c"}

(* languageTemplates[lang] || "" *)
languageTemplates(lang) ==
    IF lang \in DOMAIN extensionMap THEN "template:" \o lang ELSE ""

(* String.prototype.toLowerCase on the name components the model uses *)
toLowerCase(s) ==
    CASE s = "JS" -> "js"
      [] s = "PY" -> "py"
      [] s = "Main" -> "main"
      [] OTHER -> s

(* name.split('.').pop() and name.split('.')[0] *)
Pop(name) == name[Len(name)]
BaseName(name) == name[1]

(* getTemplateForFile(fileName) || "" *)
getTemplateForFile(name) ==
    LET ext == toLowerCase(Pop(name))
    IN IF Len(name) >= 2 /\ ext \in DOMAIN extensionToLanguage
       THEN languageTemplates(extensionToLanguage[ext])
       ELSE ""

-----------------------------------------------------------------------------
(* Sequence helpers *)

Take(s, n) == SubSeq(s, 1, IF Len(s) < n THEN Len(s) ELSE n)

(* files.find(f => f.id === id): the first index, 0 when there is none *)
FindIndex(fs, id) ==
    IF \E i \in 1..Len(fs) : fs[i].id = id
    THEN CHOOSE i \in 1..Len(fs) :
            fs[i].id = id /\ \A j \in 1..(i-1) : fs[j].id # id
    ELSE 0

HasFile(fs, id) == FindIndex(fs, id) # 0

-----------------------------------------------------------------------------
(* Built-in defaults: the useState initial values *)

DefaultFile ==
    [id |-> "1", name |-> <<"main", "js">>, content |-> "init", language |-> "javascript"]

DefaultFiles == <<DefaultFile>>

DefaultTestCases == << [id |-> 1, input |-> "", output |-> None, status |-> "pending"] >>

DefaultStorage ==
    [theme |-> None, language |-> None, files |-> None, activeFileId |-> None,
     testCases |-> None, executionHistory |-> None]

-----------------------------------------------------------------------------
(* Inputs *)

FileIds(fs) == {fs[i].id : i \in 1..Len(fs)}

-----------------------------------------------------------------------------
(* The language/active-file reconciler effect, page.jsx 125-149.           *)
(* Returns the files after the effect body has run on (fs, act, lang).     *)

ReconcileName(name, newExtension) == <<BaseName(name), newExtension>>

(* A reconciler that renames and retags but keeps the content: C7 does not *)
(* hold of it                                                              *)
ReconcileKeepingContent(fs, act, lang) ==
    IF Falsy(act) \/ ~HasFile(fs, act) THEN fs
    ELSE LET activeFile == fs[FindIndex(fs, act)]
             newExtension == getExtensionFromLanguage(lang)
         IN IF Pop(activeFile.name) # newExtension
            THEN [i \in 1..Len(fs) |->
                    IF fs[i].id = act
                    THEN [fs[i] EXCEPT !.name = <<BaseName(activeFile.name), newExtension>>,
                                       !.language = lang]
                    ELSE fs[i]]
            ELSE fs

Reconcile(fs, act, lang) ==
    IF Falsy(act) \/ ~HasFile(fs, act) THEN fs
    ELSE LET activeFile == fs[FindIndex(fs, act)]
             newExtension == getExtensionFromLanguage(lang)
             currentExtension == Pop(activeFile.name)
             newName == ReconcileName(activeFile.name, newExtension)
             newTemplate == languageTemplates(lang)
         IN IF currentExtension # newExtension
            THEN [i \in 1..Len(fs) |->
                    IF fs[i].id = act
                    THEN [fs[i] EXCEPT !.name = newName, !.content = newTemplate,
                                       !.language = lang]
                    ELSE fs[i]]
            ELSE fs

(* The effect runs when one of its dependencies [language, activeFileId]   *)
(* differs from the previous render.                                       *)
ReconcilerFires(lang0, act0, lang1, act1) == lang1 # lang0 \/ act1 # act0

AfterEffects(lang0, act0, fs1, act1, lang1) ==
    IF ReconcilerFires(lang0, act0, lang1, act1) THEN Reconcile(fs1, act1, lang1) ELSE fs1

(* The persistence effects, page.jsx 151-163: a key is written when its    *)
(* state changed since the previous render.                                *)
Persist(st, lang1, fs1, filesNew, act1, tcs1, tcsNew, hist1, histNew, theme1) ==
    [theme            |-> IF theme1 # theme THEN Some(theme1) ELSE st.theme,
     language         |-> IF lang1 # language THEN Some(lang1) ELSE st.language,
     files            |-> IF filesNew THEN Some(fs1) ELSE st.files,
     activeFileId     |-> IF act1 # activeFileId THEN Some(act1) ELSE st.activeFileId,
     testCases        |-> IF tcsNew THEN Some(tcs1) ELSE st.testCases,
     executionHistory |-> IF histNew THEN Some(hist1) ELSE st.executionHistory]

(* The state after a handler has queued its updates and React has          *)
(* re-rendered and flushed the effects.  filesSet, tcsSet, histSet tell    *)
(* whether the handler produced a new array for that piece of state.       *)
Settle(lang1, fs1, filesSet, act1, tcs1, tcsSet, hist1, histSet, theme1) ==
    LET fs2 == AfterEffects(language, activeFileId, fs1, act1, lang1)
        filesNew == filesSet \/ fs2 # fs1
    IN /\ language' = lang1
       /\ files' = fs2
       /\ activeFileId' = act1
       /\ testCases' = tcs1
       /\ history' = hist1
       /\ theme' = theme1
       /\ keydownLanguage' =
             IF filesNew \/ act1 # activeFileId \/ tcsSet THEN lang1
             ELSE keydownLanguage
       /\ storage' = Persist(storage, lang1, fs2, filesNew, act1, tcs1, tcsSet,
                             hist1, histSet, theme1)

(* The record kept in  last : the operation of the step, its arguments    *)
(* (id and name of a rename, name of a creation, id of a delete, lang of   *)
(* a language change) and two facts about the state it was called in:      *)
(* n, the number of files before a delete (for a completed run the number  *)
(* of the run, for a restore the position of the entry), and differs,      *)
(* whether the extension of the renamed file differs from the new name's   *)
(* (rename) or the extension of the active file from the new language's    *)
(* (language change).                                                      *)
Op(op, id, name, lang, n, differs) ==
    [op |-> op, id |-> id, name |-> name, lang |-> lang, n |-> n, differs |-> differs]

(* the active file's extension is not the one of lang: the test of the    *)
(* reconciler, page.jsx 138                                                *)
ExtensionMismatch(fs, act, lang) ==
    /\ HasFile(fs, act)
    /\ Pop(fs[FindIndex(fs, act)].name) # getExtensionFromLanguage(lang)

(* Date.now(): a reading t of the clock, never earlier than the last one *)
ClockReadings == now..MaxClock

(* readings at least a millisecond after the last one *)
LaterReadings == (now + 1)..MaxClock

Usable == mounted /\ ~crashed

-----------------------------------------------------------------------------
(* File operations *)

(* handleCreateFile, page.jsx 190-200 *)
NewFile(fileName, t) ==
    [id |-> ToString(t), name |-> fileName,
     content |-> getTemplateForFile(fileName), language |-> language]

handleCreateFile(fileName, t) ==
    /\ Usable
    /\ Len(files) < MaxFiles
    /\ t \in ClockReadings
    /\ now' = t
    /\ LET newFile == NewFile(fileName, t)
       IN Settle(language, Append(files, newFile), TRUE, newFile.id,
                 testCases, FALSE, history, FALSE, theme)
    /\ last' = Op("createFile", "", fileName, "", 0, FALSE)
    /\ UNCHANGED <<mounted, crashed, editingId, stdin, output, requests, isLoading, runs, runCount>>

(* A guard that lets the last file go: C3 does not hold of it *)
DeleteRefusedWhenEmpty(fs) == Len(fs) < 1

(* handleDeleteFile, page.jsx 202-207 *)
DeleteRefused(fs) == Len(fs) <= 1

DeleteFiles(fs, id) ==
    SelectSeq(fs, LAMBDA f : f.id # id)

(* newFiles[0].id throws when newFiles is empty: the queued setFiles stays *)
DeleteActive(fs, act, id) ==
    LET newFiles == DeleteFiles(fs, id)
    IN IF act = id /\ newFiles # <<>> THEN newFiles[1].id ELSE act

handleDeleteFile(id) ==
    /\ Usable
    /\ IF DeleteRefused(files)
       THEN UNCHANGED <<language, files, activeFileId, testCases, history, theme,
                        keydownLanguage, storage>>
       ELSE Settle(language, DeleteFiles(files, id), TRUE,
                   DeleteActive(files, activeFileId, id),
                   testCases, FALSE, history, FALSE, theme)
    /\ last' = Op("deleteFile", id, <<>>, "", Len(files), FALSE)
    /\ UNCHANGED <<mounted, crashed, editingId, stdin, output, requests, isLoading, runs, runCount, now>>

(* onTabClick={setActiveFileId}, page.jsx 498 *)
selectFile(id) ==
    /\ Usable
    /\ Settle(language, files, FALSE, id, testCases, FALSE, history, FALSE, theme)
    /\ last' = Op("selectFile", "", <<>>, "", 0, FALSE)
    /\ UNCHANGED <<mounted, crashed, editingId, stdin, output, requests, isLoading, runs, runCount, now>>

(* handleCodeChange, page.jsx 186-188 *)
CodeChange(fs, act, newCode) ==
    [i \in 1..Len(fs) |->
        IF fs[i].id = act THEN [fs[i] EXCEPT !.content = newCode] ELSE fs[i]]

handleCodeChange(newCode) ==
    /\ Usable
    /\ Settle(language, CodeChange(files, activeFileId, newCode), TRUE, activeFileId,
              testCases, FALSE, history, FALSE, theme)
    /\ last' = Op("codeChange", "", <<>>, "", 0, FALSE)
    /\ UNCHANGED <<mounted, crashed, editingId, stdin, output, requests, isLoading, runs, runCount, now>>

(* setLanguage from the language selector, page.jsx 414 *)
setLanguage(lang) ==
    /\ Usable
    /\ Settle(lang, files, FALSE, activeFileId, testCases, FALSE, history, FALSE, theme)
    /\ last' = Op("setLanguage", "", <<>>, lang, 0,
                  lang # language /\ ExtensionMismatch(files, activeFileId, lang))
    /\ UNCHANGED <<mounted, crashed, editingId, stdin, output, requests, isLoading, runs, runCount, now>>

(* toggleTheme, page.jsx 184 *)
toggleTheme ==
    /\ Usable
    /\ Settle(language, files, FALSE, activeFileId, testCases, FALSE, history, FALSE,
              IF theme = "dark" THEN "light" ELSE "dark")
    /\ last' = Op("toggleTheme", "", <<>>, "", 0, FALSE)
    /\ UNCHANGED <<mounted, crashed, editingId, stdin, output, requests, isLoading, runs, runCount, now>>

-----------------------------------------------------------------------------
(* Rename: FileTabs.saveEditing (part_001 51-76) calling handleRenameFile  *)
(* (page.jsx 209-229)                                                      *)

(* A validation that asks for a dot and takes any extension: C21 does not  *)
(* hold of it                                                              *)
RenameAcceptedAnyExtension(editName) ==
    /\ editName # <<"">>
    /\ Len(editName) >= 2

(* the validation of saveEditing: editName is already trimmed *)
RenameAccepted(editName) ==
    /\ editName # <<"">>
    /\ Len(editName) >= 2
    /\ toLowerCase(Pop(editName)) \in validExtensions

(* A comparison that tells js from JS: C6 does not hold of it *)
ExtensionChangedExactly(oldName, newName) == Pop(oldName) # Pop(newName)

ExtensionChanged(oldName, newName) ==
    toLowerCase(Pop(oldName)) # toLowerCase(Pop(newName))

(* extensionToLanguage[newExtension], "" when the table has no entry *)
NewLang(newName) ==
    LET newExtension == toLowerCase(Pop(newName))
    IN IF newExtension \in DOMAIN extensionToLanguage
       THEN extensionToLanguage[newExtension] ELSE ""

(* the branch of page.jsx 219-222: the extension changed to a known one *)
RenameResets(fs, id, newName) ==
    /\ HasFile(fs, id)
    /\ ExtensionChanged(fs[FindIndex(fs, id)].name, newName)
    /\ ~Falsy(NewLang(newName))

RenameLanguage(fs, lang, id, newName) ==
    IF RenameResets(fs, id, newName) THEN NewLang(newName) ELSE lang

(* A rename that never resets content and tag: C5 does not hold of it *)
RenameNameOnly(fs, id, newName) ==
    [i \in 1..Len(fs) |->
        IF fs[i].id = id THEN [fs[i] EXCEPT !.name = newName] ELSE fs[i]]

RenameFiles(fs, id, newName) ==
    IF ~HasFile(fs, id) THEN fs
    ELSE [i \in 1..Len(fs) |->
            IF fs[i].id = id
            THEN IF RenameResets(fs, id, newName)
                 THEN [fs[i] EXCEPT !.name = newName,
                                    !.content = languageTemplates(NewLang(newName)),
                                    !.language = NewLang(newName)]
                 ELSE [fs[i] EXCEPT !.name = newName]
            ELSE fs[i]]

handleRenameFile(id, newName) ==
    Settle(RenameLanguage(files, language, id, newName),
           RenameFiles(files, id, newName), HasFile(files, id), activeFileId,
           testCases, FALSE, history, FALSE, theme)

(* startEditing, part_001 43-46: a double click on the tab of a file; the  *)
(* text of the input is an argument of saveEditing                         *)
startEditing(id) ==
    /\ Usable
    /\ editingId = None
    /\ HasFile(files, id)
    /\ editingId' = Some(id)
    /\ last' = Op("startEditing", id, <<>>, "", 0, FALSE)
    /\ UNCHANGED <<mounted, crashed, stdin, output, requests, theme, language, files, activeFileId, testCases,
                   history, isLoading, keydownLanguage, runs, runCount, storage, now>>

(* handleKeyDown, part_001 78-84, on Escape *)
cancelEditing ==
    /\ Usable
    /\ editingId # None
    /\ editingId' = None
    /\ last' = Op("cancelEditing", editingId[1], <<>>, "", 0, FALSE)
    /\ UNCHANGED <<mounted, crashed, stdin, output, requests, theme, language, files, activeFileId, testCases,
                   history, isLoading, keydownLanguage, runs, runCount, storage, now>>

(* saveEditing, part_001 51-76, on Enter or when the input loses the       *)
(* focus; editName is the trimmed text of the input                        *)
saveEditing(editName) ==
    /\ Usable
    /\ editingId # None
    /\ IF RenameAccepted(editName)
       THEN /\ handleRenameFile(editingId[1], editName)
            /\ last' = Op("renameFile", editingId[1], editName, "", 0,
                            RenameResets(files, editingId[1], editName))
       ELSE /\ UNCHANGED <<language, files, activeFileId, testCases, history, theme,
                           keydownLanguage, storage>>
            /\ last' = Op("renameRejected", editingId[1], editName, "", 0, FALSE)
    /\ editingId' = None
    /\ UNCHANGED <<mounted, crashed, stdin, output, requests, isLoading, runs, runCount, now>>

-----------------------------------------------------------------------------
(* restoreFromHistory, page.jsx 362-369; confirmed is the answer to the    *)
(* confirm() dialog                                                        *)

restoreFromHistory(i, confirmed) ==
    /\ Usable
    /\ i \in 1..Len(history)
    /\ IF confirmed
       THEN Settle(history[i].language, history[i].files, TRUE, activeFileId,
                   history[i].testCases, TRUE, history, FALSE, theme)
       ELSE UNCHANGED <<language, files, activeFileId, testCases, history, theme,
                        keydownLanguage, storage>>
    /\ last' = Op(IF confirmed THEN "restore" ELSE "restoreCancelled", "", <<>>, "", i, FALSE)
    /\ UNCHANGED <<mounted, crashed, editingId, stdin, output, requests, isLoading, runs, runCount, now>>

-----------------------------------------------------------------------------
(* The judge's answer to one request and its decoding, page.jsx 304-328    *)

(* atob on the base64 texts the model uses; anything else throws *)
Base64Table ==
    [x \in {"NQo=", "b29wcw==", "d2Fybg=="} |->
        CASE x = "NQo=" -> "5\n"
          [] x = "b29wcw==" -> "oops"
          [] x = "d2Fybg==" -> "warn"]

AtobThrows(x) == x \notin DOMAIN Base64Table
atob(x) == Base64Table[x]

Response(kind, success, message, hasResult, stdout, stderr, compile_output, hasStatus, statusId, description) ==
    [kind |-> kind, success |-> success, message |-> message,
     hasResult |-> hasResult, stdout |-> stdout, stderr |-> stderr,
     compile_output |-> compile_output, hasStatus |-> hasStatus,
     statusId |-> statusId, description |-> description]

(* fetch or response.json() rejected *)
TransportFailure == Response("reject", FALSE, "Failed to fetch", FALSE, "", "", "", FALSE, 0, "")
JudgeRefused == Response("json", FALSE, "Compilation service unavailable", FALSE, "", "", "", FALSE, 0, "")
Accepted == Response("json", TRUE, "", TRUE, "NQo=", "", "", TRUE, 3, "Accepted")
RuntimeError == Response("json", TRUE, "", TRUE, "", "b29wcw==", "", TRUE, 11, "Runtime Error (NZEC)")

(* A report that puts the standard output before the error output: C13    *)
(* does not hold of it                                                     *)
OutputTextStdoutFirst(r) ==
    LET t1 == IF r.hasStatus /\ ~Falsy(r.description)
              THEN "Status: " \o r.description \o "\n" ELSE ""
        t2 == IF ~Falsy(r.compile_output)
              THEN t1 \o "Compilation Output:\n" \o atob(r.compile_output) \o "\n" ELSE t1
        t3 == IF ~Falsy(r.stdout)
              THEN t2 \o "Output:\n" \o atob(r.stdout) \o "\n" ELSE t2
        t4 == IF ~Falsy(r.stderr)
              THEN t3 \o "Error:\n" \o atob(r.stderr) \o "\n" ELSE t3
    IN IF Falsy(t4) THEN "Program executed successfully with no output." ELSE t4

(* outputText of a success=true answer, page.jsx 315-320 *)
OutputText(r) ==
    LET t1 == IF r.hasStatus /\ ~Falsy(r.description)
              THEN "Status: " \o r.description \o "\n" ELSE ""
        t2 == IF ~Falsy(r.compile_output)
              THEN t1 \o "Compilation Output:\n" \o atob(r.compile_output) \o "\n" ELSE t1
        t3 == IF ~Falsy(r.stderr)
              THEN t2 \o "Error:\n" \o atob(r.stderr) \o "\n" ELSE t2
        t4 == IF ~Falsy(r.stdout)
              THEN t3 \o "Output:\n" \o atob(r.stdout) \o "\n" ELSE t3
    IN IF Falsy(t4) THEN "Program executed successfully with no output." ELSE t4

(* A classification that takes the accepted id itself for a failure: C14  *)
(* does not hold of it                                                     *)
StatusOfFromThreshold(r) ==
    IF ~Falsy(r.stderr) \/ (r.hasStatus /\ r.statusId >= AcceptedId)
    THEN "error" ELSE "success"

(* stderr || (status?.id > 3) ? 'error' : 'success' *)
StatusOf(r) ==
    IF ~Falsy(r.stderr) \/ (r.hasStatus /\ r.statusId > AcceptedId)
    THEN "error" ELSE "success"

(* an exception inside the inner try: destructuring a missing result, or   *)
(* atob on a text that is not base64                                       *)
DecodeThrows(r) ==
    \/ ~r.hasResult
    \/ \E x \in {r.compile_output, r.stderr, r.stdout} : ~Falsy(x) /\ AtobThrows(x)

ThrownMessage(r) ==
    IF ~r.hasResult THEN "Cannot destructure property 'stdout' of 'data.result'"
    ELSE "Failed to execute 'atob'"

(* the test case returned by the async callback of testCases.map *)
Outcome(tc, r) ==
    IF r.kind = "reject"
    THEN [tc EXCEPT !.output = Some("Error: " \o r.message), !.status = "error"]
    ELSE IF ~r.success
    THEN [tc EXCEPT !.output = Some(IF Falsy(r.message) THEN "Unknown error" ELSE r.message),
                    !.status = "error"]
    ELSE IF DecodeThrows(r)
    THEN [tc EXCEPT !.output = Some("Error: " \o ThrownMessage(r)), !.status = "error"]
    ELSE [tc EXCEPT !.output = Some(OutputText(r)), !.status = StatusOf(r)]

-----------------------------------------------------------------------------
(* handleRun, page.jsx 289-339, and saveToHistory, page.jsx 345-357        *)

(* The closure of a handleRun invocation.  The Run button uses the         *)
(* handler of the latest render; Ctrl+Enter uses the handler captured by   *)
(* the keydown effect (dependencies [files, activeFileId, testCases]).     *)
(* results[k] is what the callback of request k returned, answers[k] the   *)
(* answer of the judge it was made from.                                   *)
RunClosure(entry) ==
    [run |-> runCount + 1,
     language |-> IF entry = "ctrlEnter" THEN keydownLanguage ELSE language,
     files |-> files,
     testCases |-> testCases,
     history |-> history,
     results |-> [k \in 1..Len(testCases) |-> None],
     answers |-> [k \in 1..Len(testCases) |-> None]]

RunEntries == {"button", "ctrlEnter"}

(* the Run button is disabled={isLoading}; the keydown handler is not *)
EntryEnabled(entry) == entry = "ctrlEnter" \/ ~isLoading

handleRunStart(entry, cap) ==
    /\ Usable
    /\ runCount < cap
    /\ Len(runs) < MaxInFlight
    /\ EntryEnabled(entry)
    /\ isLoading' = TRUE
    /\ runCount' = runCount + 1
    /\ IF HasFile(files, activeFileId)
       THEN runs' = Append(runs, RunClosure(entry))
       ELSE runs' = runs
    /\ last' = Op("runStart", "", <<>>, "", 0, FALSE)
    /\ UNCHANGED <<mounted, crashed, editingId, stdin, output, requests, theme, language, files, activeFileId, testCases,
                   history, keydownLanguage, storage, now>>

(* one request of a suspended run settles *)
runRespond(r, k, resp) ==
    /\ Usable
    /\ r \in 1..Len(runs)
    /\ k \in 1..Len(runs[r].results)
    /\ runs[r].results[k] = None
    /\ runs' = [runs EXCEPT ![r].results[k] = Some(Outcome(runs[r].testCases[k], resp)),
                            ![r].answers[k] = Some(resp)]
    /\ last' = Op("respond", "", <<>>, "", 0, FALSE)
    /\ UNCHANGED <<mounted, crashed, editingId, stdin, output, requests, theme, language, files, activeFileId, testCases,
                   history, isLoading, keydownLanguage, runCount, storage, now>>

AllSettled(run) == \A k \in 1..Len(run.results) : run.results[k] # None

(* A join that takes the result of the first request for every entry: C12 *)
(* does not hold of it                                                     *)
ResultsOfFirst(run) == [k \in 1..Len(run.results) |-> run.results[1][1]]

Results(run) == [k \in 1..Len(run.results) |-> run.results[k][1]]

(* newHistoryItem of saveToHistory, built from the closure of the run *)
NewHistoryItem(run, results, t) ==
    [id |-> t, timestamp |-> t, run |-> run.run,
     language |-> run.language, files |-> run.files, testCases |-> results]

(* A history without the slice: C9 does not hold of it *)
UncappedHistory(item, hist) == <<item>> \o hist

(* [newHistoryItem, ...history].slice(0, 10) *)
UpdatedHistory(item, hist) == Take(<<item>> \o hist, HistoryCap)

saveToHistory(run, results, t) ==
    UpdatedHistory(NewHistoryItem(run, results, t), run.history)

RemoveAt(s, r) == SubSeq(s, 1, r - 1) \o SubSeq(s, r + 1, Len(s))

(* Promise.all resolved: setTestCases, saveToHistory, finally *)
handleRunFinish(r, t) ==
    /\ Usable
    /\ r \in 1..Len(runs)
    /\ AllSettled(runs[r])
    /\ t \in ClockReadings
    /\ now' = t
    /\ Settle(language, files, FALSE, activeFileId, Results(runs[r]), TRUE,
              saveToHistory(runs[r], Results(runs[r]), t), TRUE, theme)
    /\ isLoading' = FALSE
    /\ runs' = RemoveAt(runs, r)
    /\ last' = Op("run", "", <<>>, "", runs[r].run, FALSE)
    /\ UNCHANGED <<mounted, crashed, editingId, stdin, output, requests, runCount>>

-----------------------------------------------------------------------------
(* The test-case panel.  Home hands testCases and setTestCases to          *)
(* OutputPanel (page.jsx 516-523); the panel itself adds a test case and   *)
(* edits the input of one through that setter.                             *)

(* setTestCases(tcs) called by the panel *)
setTestCases(tcs, op) ==
    /\ Usable
    /\ Settle(language, files, FALSE, activeFileId, tcs, TRUE, history, FALSE, theme)
    /\ last' = Op(op, "", <<>>, "", 0, FALSE)
    /\ UNCHANGED <<mounted, crashed, editingId, stdin, output, requests, isLoading, runs, runCount, now>>

(* a fresh test case, numbered after the ones there are *)
NewTestCase(tcs) ==
    [id |-> Len(tcs) + 1, input |-> "", output |-> None, status |-> "pending"]

addTestCase ==
    /\ Len(testCases) < MaxCases
    /\ setTestCases(Append(testCases, NewTestCase(testCases)), "addTestCase")

editTestCase(k, text) ==
    /\ k \in 1..Len(testCases)
    /\ testCases[k].input # text
    /\ setTestCases([testCases EXCEPT ![k].input = text], "editTestCase")

-----------------------------------------------------------------------------
(* Single-file mode: the second Home of page.jsx (lines 552-1004), whose   *)
(* handleRun (820-881) sends one request with the standalone stdin text    *)
(* and writes one output string.                                           *)

(* setStdin, from the input tab *)
setStdin(text) ==
    /\ Usable
    /\ stdin # text
    /\ stdin' = text
    /\ keydownLanguage' = language
    /\ last' = Op("setStdin", "", <<>>, "", 0, FALSE)
    /\ UNCHANGED <<mounted, crashed, theme, language, files, activeFileId, testCases,
                   history, isLoading, runs, runCount, storage, now, editingId,
                   output, requests>>

(* the payload of the request, as far as the input is concerned; Ctrl+Enter *)
(* uses the handler of the latest render as well, since stdin is among the  *)
(* dependencies of the keydown effect (page.jsx 702)                        *)
Request(run, input) == [run |-> run, input |-> input]

(* A flag that stays up when the active file is missing, as it does when   *)
(* the return precedes the try block: C30 does not hold of it              *)
LoadingStuckWithoutFile == TRUE

(* isLoading after  if (!activeFile) return  inside the try block: the     *)
(* finally block has run                                                   *)
LoadingWithoutFile == FALSE

(* the closure of an invocation that reached fetch; asked is the stdin     *)
(* text of the session at the moment of the invocation                     *)
SingleClosure ==
    [run |-> runCount + 1, request |-> Request(runCount + 1, stdin), asked |-> stdin]

(* handleRun up to its first await *)
handleRunSingleStart(entry, cap) ==
    /\ Usable
    /\ runCount < cap
    /\ Len(runs) < MaxInFlight
    /\ EntryEnabled(entry)
    /\ runCount' = runCount + 1
    /\ output' = None
    /\ IF HasFile(files, activeFileId)
       THEN /\ isLoading' = TRUE
            /\ runs' = Append(runs, SingleClosure)
            /\ requests' = Append(requests, SingleClosure.request)
            /\ last' = Op("runSingleStart", "", <<>>, "", runCount + 1, FALSE)
       ELSE /\ isLoading' = LoadingWithoutFile
            /\ runs' = runs
            /\ requests' = requests
            /\ last' = Op("runSingle", "", <<>>, "", runCount + 1, FALSE)
    /\ UNCHANGED <<mounted, crashed, theme, language, files, activeFileId, testCases,
                   history, keydownLanguage, storage, now, editingId, stdin>>

(* the output string made of the judge's answer, page.jsx 846-878 *)
SingleOutput(r) ==
    IF r.kind = "reject" THEN "Error: " \o r.message
    ELSE IF ~r.success
    THEN "Error: " \o (IF Falsy(r.message) THEN "Unknown error occurred" ELSE r.message)
    ELSE IF DecodeThrows(r) THEN "Error: " \o ThrownMessage(r)
    ELSE OutputText(r)

(* the request of a suspended run is answered: the rest of handleRun *)
handleRunSingleFinish(r, resp) ==
    /\ Usable
    /\ r \in 1..Len(runs)
    /\ output' = Some(SingleOutput(resp))
    /\ isLoading' = FALSE
    /\ runs' = RemoveAt(runs, r)
    /\ last' = Op("runSingle", "", <<>>, "", runs[r].run, FALSE)
    /\ UNCHANGED <<mounted, crashed, theme, language, files, activeFileId, testCases,
                   history, keydownLanguage, runCount, storage, now, editingId, stdin,
                   requests>>

(* The page of single-file mode is opened: language, files, activeFileId   *)
(* and stdin come from storage through the useState initialisers           *)
(* (page.jsx 557-590), here as the session s that storage holds.           *)
loadSingle(s) ==
    /\ mounted' = TRUE
    /\ crashed' = FALSE
    /\ files' = s.files
    /\ activeFileId' = s.activeFileId
    /\ stdin' = s.stdin
    /\ output' = None
    /\ isLoading' = FALSE
    /\ runs' = <<>>
    /\ editingId' = None
    /\ keydownLanguage' = language
    /\ last' = Op("loadSingle", "", <<>>, "", 0, FALSE)
    /\ UNCHANGED <<theme, language, testCases, history, runCount, storage, now, requests>>

-----------------------------------------------------------------------------
(* Page load: the init effect, page.jsx 68-123, followed by the first      *)
(* renders and their effects                                               *)

(* What LZString.decompressFromEncodedURIComponent and JSON.parse make of  *)
(* the data parameter of the URL                                           *)
Token(kind, lang, hasFiles, fs, tcs) ==
    [kind |-> kind, language |-> lang, hasFiles |-> hasFiles, files |-> fs,
     testCases |-> tcs]

(* decompression yields nothing *)
GarbageToken == Token("garbage", "", FALSE, <<>>, <<>>)
(* decompression yields a text that JSON.parse rejects *)
BadJsonToken == Token("badjson", "", FALSE, <<>>, <<>>)

SharedFile ==
    [id |-> "7", name |-> <<"a", "b", "py">>, content |-> "shared", language |-> "python"]

ShareTokens ==
    { GarbageToken, BadJsonToken,
      Token("data", "python", TRUE, <<SharedFile>>, DefaultTestCases),
      Token("data", "javascript", TRUE, <<>>, DefaultTestCases),
      Token("data", "python", FALSE, <<>>, DefaultTestCases) }

(* the data parameter: absent, or one of the tokens *)
TokenInputs == {None} \cup {Some(t) : t \in ShareTokens}

(* the try block reaches  return  (page.jsx 87) *)
ShareApplied(tok) == tok # None /\ tok[1].kind = "data" /\ tok[1].hasFiles

(* data.files[0] throws after language, files and testCases were queued *)
ShareThrew(tok) == tok # None /\ tok[1].kind = "data" /\ ~tok[1].hasFiles

(* data.files[0]?.id || "1" *)
SharedActiveId(fs) == IF fs = <<>> \/ Falsy(fs[1].id) THEN "1" ELSE fs[1].id

(* if (saved) set(saved), on top of what is queued already *)
Restored(saved, queued) == IF saved # None THEN saved[1] ELSE queued

(* the state queued by the init effect; files is None when undefined *)
InitEffect(st, tok) ==
    IF ShareApplied(tok)
    THEN [theme |-> "dark", language |-> tok[1].language, files |-> Some(tok[1].files),
          activeFileId |-> SharedActiveId(tok[1].files),
          testCases |-> tok[1].testCases, history |-> <<>>]
    ELSE [theme |-> Restored(st.theme, "dark"),
          language |-> Restored(st.language,
                                IF ShareThrew(tok) THEN tok[1].language ELSE "javascript"),
          files |-> IF st.files # None THEN st.files
                    ELSE IF ShareThrew(tok) THEN None ELSE Some(DefaultFiles),
          activeFileId |-> Restored(st.activeFileId, "1"),
          testCases |-> Restored(st.testCases,
                                 IF ShareThrew(tok) THEN tok[1].testCases
                                 ELSE DefaultTestCases),
          history |-> Restored(st.executionHistory, <<>>)]

(* what the persistence effects of the first render write: the defaults *)
FirstRenderStorage ==
    [theme |-> Some("dark"), language |-> Some("javascript"),
     files |-> Some(DefaultFiles), activeFileId |-> Some("1"),
     testCases |-> Some(DefaultTestCases), executionHistory |-> Some(<<>>)]

Mirror(th, lang, fs, act, tcs, hist) ==
    [theme |-> Some(th), language |-> Some(lang), files |-> Some(fs),
     activeFileId |-> Some(act), testCases |-> Some(tcs),
     executionHistory |-> Some(hist)]

(* the session after the mount with the data parameter tok *)
LoadState(tok) ==
    LET q == InitEffect(storage, tok)
    IN /\ mounted' = TRUE
       /\ theme' = q.theme
       /\ language' = q.language
       /\ activeFileId' = q.activeFileId
       /\ testCases' = q.testCases
       /\ history' = q.history
       /\ keydownLanguage' = q.language
       /\ IF q.files = None
          THEN /\ crashed' = TRUE
               /\ files' = <<>>
               /\ storage' = FirstRenderStorage
          ELSE /\ crashed' = FALSE
               /\ files' = AfterEffects("javascript", "1", q.files[1],
                                        q.activeFileId, q.language)
               /\ storage' = Mirror(q.theme, q.language, files', q.activeFileId,
                                    q.testCases, q.history)
       /\ isLoading' = FALSE
       /\ runs' = <<>>
       /\ editingId' = None
       /\ UNCHANGED <<runCount, now, stdin, output, requests>>

(* what a token is: absent, unreadable, without a files list, or complete *)
TokenKind(tok) ==
    IF tok = None THEN "none"
    ELSE IF tok[1].kind # "data" THEN tok[1].kind
    ELSE IF tok[1].hasFiles THEN "data" ELSE "nofiles"

(* the record kept in  last  for a page load: the operation, the kind of   *)
(* the token (id) and the token itself                                     *)
LoadOp(op, tok) ==
    [op |-> op, id |-> TokenKind(tok), name |-> <<>>, lang |-> "", n |-> 0,
     differs |-> FALSE, tok |-> tok]

(* the page is opened, with the data parameter tok *)
Load(tok) ==
    /\ LoadState(tok)
    /\ last' = LoadOp("load", tok)

(* handleShare, page.jsx 267-284: the data object is serialised           *)
(* (JSON.stringify), compressed and put in the data parameter of the page  *)
(* URL.  JSON keeps strings, integers, null, arrays and objects as they    *)
(* are, and the compression is lossless, so the token decodes to an object *)
(* with the same language, files and testCases.                            *)
handleShare == Token("data", language, TRUE, files, testCases)

(* the link copied by handleShare is opened in the same browser *)
openSharedLink ==
    /\ Usable
    /\ LoadState(Some(handleShare))
    /\ last' = LoadOp("openShared", Some(handleShare))

-----------------------------------------------------------------------------
(* The session specification *)

Init ==
    /\ mounted = FALSE
    /\ crashed = FALSE
    /\ theme = "dark"
    /\ language = "javascript"
    /\ files = DefaultFiles
    /\ activeFileId = "1"
    /\ testCases = DefaultTestCases
    /\ history = <<>>
    /\ isLoading = FALSE
    /\ keydownLanguage = "javascript"
    /\ runs = <<>>
    /\ runCount = 0
    /\ storage = DefaultStorage
    /\ now = 2
    /\ editingId = None
    /\ stdin = ""
    /\ output = None
    /\ requests = <<>>
    /\ last = Op("init", "", <<>>, "", 0, FALSE)

(* Spec: the whole session (files, language, runs, history, page loads    *)
(* with and without a share token) on a small set of inputs.  Files are    *)
(* created at least a millisecond apart (each creation is a separate       *)
(* submission of the new-file popup); SpecFiles below also covers          *)
(* creations within the same millisecond.                                  *)
SessionNames == { <<"b", "js">> }
SessionLanguages == {"javascript", "python"}
SessionResponses == {Accepted}

Next ==
    \/ \E tok \in TokenInputs : Load(tok)
    \/ \E n \in SessionNames, t \in LaterReadings : handleCreateFile(n, t)
    \/ \E id \in FileIds(files) : handleDeleteFile(id)
    \/ \E id \in FileIds(files) : selectFile(id)
    \/ \E l \in SessionLanguages : setLanguage(l)
    \/ \E i \in 1..Len(history), ok \in BOOLEAN : restoreFromHistory(i, ok)
    \/ \E e \in RunEntries : handleRunStart(e, MaxSessionRuns)
    \/ \E r \in 1..Len(runs), k \in 1..Len(testCases), resp \in SessionResponses :
          runRespond(r, k, resp)
    \/ \E r \in 1..Len(runs), t \in ClockReadings : handleRunFinish(r, t)

Spec == Init /\ [][Next]_vars

(* SpecFiles: creation, deletion, selection, editing and language changes; *)
(* no run is started and no file is renamed by hand.  Files may be created *)
(* within the same millisecond.  The page is opened without a token or     *)
(* with LeftoverToken.                                                     *)
FileNames == { <<"b", "js">> }
FileLanguages == {"javascript", "python"}
CodeInputs == {"user"}
(* an id that no file carries *)
UnknownIds == {"0"}

(* A token shared from a session whose first file had been switched to     *)
(* Python while the selector went back to JavaScript on another file.      *)
LeftoverFile ==
    [id |-> "1", name |-> <<"main", "py">>, content |-> "shared", language |-> "python"]

LeftoverToken == Token("data", "javascript", TRUE, <<LeftoverFile>>, DefaultTestCases)

FileTokens == {None, Some(LeftoverToken)}

NextFiles ==
    \/ \E tok \in FileTokens : Load(tok)
    \/ \E n \in FileNames, t \in ClockReadings : handleCreateFile(n, t)
    \/ \E id \in FileIds(files) \cup UnknownIds : handleDeleteFile(id)
    \/ \E id \in FileIds(files) : selectFile(id)
    \/ \E c \in CodeInputs : handleCodeChange(c)
    \/ \E l \in FileLanguages : setLanguage(l)

SpecFiles == Init /\ [][NextFiles]_vars

(* SpecRename: renaming through the tab bar, between creations, selections *)
(* and edits.  RenameNames holds a name that differs from main.js in the   *)
(* case of its extension only, a name with another extension, and a name   *)
(* the tab bar rejects for want of a dot, and one it rejects for its       *)
(* extension.                                                              *)
RenameNames == { <<"main", "JS">>, <<"b", "py">>, <<"notes">>, <<"b", "txt">> }

NextRename ==
    \/ Load(None)
    \/ \E n \in FileNames, t \in ClockReadings : handleCreateFile(n, t)
    \/ \E id \in FileIds(files) : selectFile(id)
    \/ \E id \in FileIds(files) : startEditing(id)
    \/ \E n \in RenameNames : saveEditing(n)
    \/ cancelEditing
    \/ \E c \in CodeInputs : handleCodeChange(c)

SpecRename == Init /\ [][NextRename]_vars

(* SpecHistory: runs of the default session, sequential and overlapping.  *)
(* The page is opened on the storage left by an earlier session in which   *)
(* PastRuns runs completed one after the other; up to MaxRuns further      *)
(* invocations of handleRun follow.                                        *)
HistoryResponses == {Accepted}

PastTestCases == <<Outcome(DefaultTestCases[1], Accepted)>>

PastRun(n) ==
    [run |-> n, language |-> "javascript", files |-> DefaultFiles,
     testCases |-> DefaultTestCases, history |-> <<>>,
     results |-> <<Some(PastTestCases[1])>>]

RECURSIVE PastHistory(_)
PastHistory(n) ==
    IF n = 0 THEN <<>>
    ELSE UpdatedHistory(NewHistoryItem(PastRun(n), PastTestCases, 1), PastHistory(n - 1))

InitHistory ==
    /\ mounted = FALSE
    /\ crashed = FALSE
    /\ theme = "dark"
    /\ language = "javascript"
    /\ files = DefaultFiles
    /\ activeFileId = "1"
    /\ testCases = DefaultTestCases
    /\ history = <<>>
    /\ isLoading = FALSE
    /\ keydownLanguage = "javascript"
    /\ runs = <<>>
    /\ runCount = PastRuns
    /\ storage = Mirror("dark", "javascript", DefaultFiles, "1", PastTestCases,
                        PastHistory(PastRuns))
    /\ now = 2
    /\ editingId = None
    /\ stdin = ""
    /\ output = None
    /\ requests = <<>>
    /\ last = Op("init", "", <<>>, "", 0, FALSE)

NextHistory ==
    \/ Load(None)
    \/ \E e \in RunEntries : handleRunStart(e, PastRuns + MaxRuns)
    \/ \E r \in 1..Len(runs), k \in 1..Len(testCases), resp \in HistoryResponses :
          runRespond(r, k, resp)
    \/ \E r \in 1..Len(runs), t \in ClockReadings : handleRunFinish(r, t)
    \/ toggleTheme

SpecHistory == InitHistory /\ [][NextHistory]_vars

(* SpecBatch: runs over a batch of three test cases, opened from a shared    *)
(* link.  Each request is answered on its own, in any order, by an         *)
(* accepted answer, a runtime error or a transport failure.                *)
BatchTestCases ==
    << [id |-> 1, input |-> "1", output |-> None, status |-> "pending"],
       [id |-> 2, input |-> "2", output |-> None, status |-> "pending"],
       [id |-> 3, input |-> "3", output |-> None, status |-> "pending"] >>

BatchToken == Token("data", "javascript", TRUE, DefaultFiles, BatchTestCases)

BatchResponses == {Accepted, RuntimeError, TransportFailure}

NextBatch ==
    \/ Load(Some(BatchToken))
    \/ \E e \in RunEntries : handleRunStart(e, MaxSessionRuns)
    \/ \E r \in 1..Len(runs), k \in 1..Len(testCases), resp \in BatchResponses :
          runRespond(r, k, resp)
    \/ \E r \in 1..Len(runs), t \in ClockReadings : handleRunFinish(r, t)

SpecBatch == Init /\ [][NextBatch]_vars

(* SpecDecode: runs of the default session (one test case) whose request   *)
(* is answered by every kind of answer: a transport failure, a refusal     *)
(* with and without a message, success=true with each combination of       *)
(* status, compile_output, stderr and stdout, success=true without a       *)
(* result object, and success=true with a text that is not base64.         *)
JudgeSilent == Response("json", FALSE, "", FALSE, "", "", "", FALSE, 0, "")
NoResult == Response("json", TRUE, "", FALSE, "", "", "", FALSE, 0, "")
NotBase64 == Response("json", TRUE, "", TRUE, "!!!", "", "", TRUE, 3, "Accepted")

(* result.status: absent, or an id with its description *)
StatusVariants ==
    { <<FALSE, 0, "">>, <<TRUE, 3, "Accepted">>, <<TRUE, 3, "">>, <<TRUE, 4, "Wrong Answer">> }

ResultResponses ==
    { Response("json", TRUE, "", TRUE, so, se, co, st[1], st[2], st[3]) :
        so \in {"", "NQo="}, se \in {"", "b29wcw=="}, co \in {"", "d2Fybg=="},
        st \in StatusVariants }

DecodeResponses ==
    {TransportFailure, JudgeRefused, JudgeSilent, NoResult, NotBase64} \cup ResultResponses

NextDecode ==
    \/ Load(None)
    \/ \E e \in RunEntries : handleRunStart(e, MaxSessionRuns)
    \/ \E r \in 1..Len(runs), k \in 1..Len(testCases), resp \in DecodeResponses :
          runRespond(r, k, resp)
    \/ \E r \in 1..Len(runs), t \in ClockReadings : handleRunFinish(r, t)

SpecDecode == Init /\ [][NextDecode]_vars

(* SpecShare: file and language operations, edits of the code, and the    *)
(* page opened again: reloaded, or through the link that handleShare       *)
(* makes of the current session.                                           *)
NextShare ==
    \/ Load(None)
    \/ \E n \in FileNames, t \in ClockReadings : handleCreateFile(n, t)
    \/ \E id \in FileIds(files) : selectFile(id)
    \/ \E c \in CodeInputs : handleCodeChange(c)
    \/ \E l \in FileLanguages : setLanguage(l)
    \/ openSharedLink

SpecShare == Init /\ [][NextShare]_vars

(* SpecCases: runs of the default session while the test-case panel adds   *)
(* test cases and edits their inputs, before, during and after a run.      *)
CaseInputs == {"", "7"}
CaseResponses == {Accepted, TransportFailure}

NextCases ==
    \/ Load(None)
    \/ addTestCase
    \/ \E k \in 1..Len(testCases), text \in CaseInputs : editTestCase(k, text)
    \/ \E e \in RunEntries : handleRunStart(e, MaxSessionRuns)
    \/ \E r \in 1..Len(runs), k \in 1..Len(testCases), resp \in CaseResponses :
          runRespond(r, k, resp)
    \/ \E r \in 1..Len(runs), t \in ClockReadings : handleRunFinish(r, t)

SpecCases == Init /\ [][NextCases]_vars

(* SpecSingle: single-file mode.  Storage holds the default session, or    *)
(* the session the multi-file page leaves behind after a share link        *)
(* without files: no file, activeFileId "1".  The stdin text is edited     *)
(* before and during runs; runs are started by the button and by           *)
(* Ctrl+Enter and answered in any order.                                   *)
StdinInputs == {"", "5"}

SingleSessions ==
    { [files |-> fs, activeFileId |-> "1", stdin |-> text] :
        fs \in {DefaultFiles, <<>>}, text \in StdinInputs }

SingleResponses == {Accepted, JudgeRefused, TransportFailure, NoResult}

NextSingle ==
    \/ \E s \in SingleSessions : loadSingle(s)
    \/ \E text \in StdinInputs : setStdin(text)
    \/ \E e \in RunEntries : handleRunSingleStart(e, MaxRuns)
    \/ \E r \in 1..Len(runs), resp \in SingleResponses : handleRunSingleFinish(r, resp)

SpecSingle == Init /\ [][NextSingle]_vars

-----------------------------------------------------------------------------
(* Properties of the session                                               *)

(* the active file, where there is one *)
HasActiveFile == HasFile(files, activeFileId)
ActiveFile == files[FindIndex(files, activeFileId)]

(* the extension of a name: its last component, when it has a dot *)
HasExtension(name, ext) == Len(name) >= 2 /\ Pop(name) = ext

(* the name with its last dot-separated component replaced by ext *)
WithExtension(name, ext) == SubSeq(name, 1, Len(name) - 1) \o <<ext>>

(* the extensions of two names are equal up to the case of their letters *)
SameExtension(oldName, newName) == toLowerCase(Pop(oldName)) = toLowerCase(Pop(newName))

(* the language the table of handleRenameFile gives for the extension of name *)
TableLanguage(name) == extensionToLanguage[toLowerCase(Pop(name))]

(* the step is the named operation *)
StepIs(op) == last'.op = op

(* C1: in every settled state of the session activeFileId is the id of a   *)
(* file that is present in files.                                          *)
C1_ActiveFileExists == Usable => HasActiveFile

(* C2: in every reachable state of the session the file collection holds   *)
(* at least one file.                                                      *)
C2_AtLeastOneFile == Usable => Len(files) >= 1

(* C3: deleteFile(id) called while exactly one file remains leaves files   *)
(* (its length and every file in it) and activeFileId as they were, for    *)
(* every id.                                                               *)
C3_DeleteLastFileIsNoOp ==
    [][(StepIs("deleteFile") /\ Len(files) = 1)
          => (files' = files /\ activeFileId' = activeFileId)]_vars

(* a delete was asked for while a single file remained *)
C3_Witness == last.op = "deleteFile" /\ last.n = 1 /\ Len(files) = 1

(* C4: in every settled state the active file's extension is the canonical *)
(* extension of the global language and its language tag is the global     *)
(* language.                                                               *)
C4_ActiveFileMatchesLanguage ==
    (Usable /\ HasActiveFile) =>
        /\ HasExtension(ActiveFile.name, getExtensionFromLanguage(language))
        /\ ActiveFile.language = language

(* C5: a rename to a name whose extension differs from the old one and is  *)
(* in the table gives the file the table's language as its tag and that    *)
(* language's starter template as its content, and sets the global         *)
(* language to that language.                                              *)
C5_RenameToOtherExtension ==
    [][(/\ StepIs("renameFile")
        /\ HasFile(files, last'.id)
        /\ ~SameExtension(files[FindIndex(files, last'.id)].name, last'.name)
        /\ toLowerCase(Pop(last'.name)) \in validExtensions)
          => /\ language' = TableLanguage(last'.name)
             /\ Len(files') = Len(files)
             /\ \A i \in 1..Len(files) :
                   files[i].id = last'.id =>
                      /\ files'[i].id = last'.id
                      /\ files'[i].language = TableLanguage(last'.name)
                      /\ files'[i].content = languageTemplates(TableLanguage(last'.name))]_vars

(* main.js, edited, has just been renamed to b.py *)
C5_Witness ==
    /\ last.op = "renameFile"
    /\ last.differs
    /\ last.name = <<"b", "py">>
    /\ language = "python"
    /\ \E i \in 1..Len(files) :
          /\ files[i].id = last.id
          /\ files[i].language = "python"
          /\ files[i].content = languageTemplates("python")

(* C6: a rename to a name whose extension equals the old one up to case    *)
(* changes the name of that file and nothing else: content, language tag,  *)
(* the other files and the global language stay as they were.              *)
C6_RenameSameExtension ==
    [][(/\ StepIs("renameFile")
        /\ HasFile(files, last'.id)
        /\ SameExtension(files[FindIndex(files, last'.id)].name, last'.name))
          => /\ language' = language
             /\ activeFileId' = activeFileId
             /\ Len(files') = Len(files)
             /\ \A i \in 1..Len(files) :
                   files'[i] = IF files[i].id = last'.id
                               THEN [files[i] EXCEPT !.name = last'.name]
                               ELSE files[i]]_vars

(* an edited main.js has just been renamed to main.JS and kept its content *)
C6_Witness ==
    /\ last.op = "renameFile"
    /\ ~last.differs
    /\ last.name = <<"main", "JS">>
    /\ \E i \in 1..Len(files) :
          /\ files[i].id = last.id
          /\ files[i].name = <<"main", "JS">>
          /\ files[i].content = "user"

(* C7: when the global language changes to L and the active file's         *)
(* extension is not L's canonical extension, the active file afterwards    *)
(* has that extension, L's starter template as content and the tag L;      *)
(* when the extension is L's already, no file changes.                     *)
C7_LanguageChangeReconciles ==
    [][(StepIs("setLanguage") /\ last'.lang # language /\ HasActiveFile)
          => /\ language' = last'.lang
             /\ activeFileId' = activeFileId
             /\ IF Pop(ActiveFile.name) # getExtensionFromLanguage(last'.lang)
                THEN /\ HasActiveFile'
                     /\ HasExtension(ActiveFile'.name, getExtensionFromLanguage(last'.lang))
                     /\ ActiveFile'.content = languageTemplates(last'.lang)
                     /\ ActiveFile'.language = last'.lang
                ELSE files' = files]_vars

(* the language went from javascript to python with main.js active *)
C7_Witness ==
    /\ last.op = "setLanguage"
    /\ last.differs
    /\ language = "python"
    /\ HasActiveFile
    /\ ActiveFile.name = <<"main", "py">>
    /\ ActiveFile.content = languageTemplates("python")
    /\ ActiveFile.language = "python"

(* C8: when a language change renames the active file, the new name is the *)
(* old name with its last dot-separated component replaced by the new      *)
(* extension, also for names with more than one dot.                       *)
C8_BaseNamePreserved ==
    [][(/\ StepIs("setLanguage")
        /\ HasActiveFile
        /\ Pop(ActiveFile.name) # getExtensionFromLanguage(last'.lang)
        /\ files' # files)
          => ActiveFile'.name =
                WithExtension(ActiveFile.name, getExtensionFromLanguage(last'.lang))]_vars

(* C9: in every reachable state the execution history holds at most ten    *)
(* entries, whether the runs follow one another or overlap.                *)
C9_HistoryAtMostTen == Len(history) <= HistoryCap

(* a run has completed on a full history: the eleventh or a later one *)
C9_Witness ==
    /\ last.op = "run"
    /\ Len(history) = HistoryCap
    /\ history[1].run > HistoryCap

(* C10: history is newest first and evicts the oldest: when a run          *)
(* completes with ten entries present, the new entry comes first and the   *)
(* nine entries inserted latest follow it in their former order.           *)
C10_EvictsOldestFirst ==
    [][(StepIs("run") /\ Len(history) = HistoryCap)
          => /\ Len(history') = HistoryCap
             /\ SubSeq(history', 2, HistoryCap) = SubSeq(history, 1, HistoryCap - 1)]_vars

(* C11: every run that completes puts exactly one new entry in front of    *)
(* history and keeps the entries that were there (up to the cap), also     *)
(* when it was started while another run was in flight.                    *)
C11_RunAppendsOneEntry ==
    [][StepIs("run")
          => /\ Len(history') = (IF Len(history) < HistoryCap
                                 THEN Len(history) + 1 ELSE HistoryCap)
             /\ \A i \in 2..Len(history') : history'[i] = history[i - 1]]_vars

(* C12: the testCases committed by a run over N test cases has N entries   *)
(* in the order of the snapshot; entry k keeps id and input of test case k *)
(* and carries the outcome of the answer to request k, whatever the order  *)
(* of the answers; it has status error exactly when request k failed.      *)
C12_BatchJoinsAllResults ==
    [][StepIs("run")
          => \E r \in 1..Len(runs) :
                /\ runs[r].run = last'.n
                /\ Len(testCases') = Len(runs[r].testCases)
                /\ \A k \in 1..Len(runs[r].testCases) :
                      /\ testCases'[k].id = runs[r].testCases[k].id
                      /\ testCases'[k].input = runs[r].testCases[k].input
                      /\ testCases'[k] = Outcome(runs[r].testCases[k], runs[r].answers[k][1])
                      /\ (testCases'[k].status = "error") <=> (runs[r].answers[k][1] # Accepted)
                      /\ (testCases'[k].status = "success") <=> (runs[r].answers[k][1] = Accepted)]_vars

(* a run of three test cases has completed: the second request failed in  *)
(* transport, the other two were accepted                                  *)
C12_Witness ==
    /\ last.op = "run"
    /\ Len(testCases) = 3
    /\ testCases[1] = [id |-> 1, input |-> "1", status |-> "success",
                       output |-> Some("Status: Accepted\nOutput:\n5\n\n")]
    /\ testCases[2] = [id |-> 2, input |-> "2", status |-> "error",
                       output |-> Some("Error: Failed to fetch")]
    /\ testCases[3] = [id |-> 3, input |-> "3", status |-> "success",
                       output |-> Some("Status: Accepted\nOutput:\n5\n\n")]

(* the position in runs of the invocation that this step completes *)
CompletedRun == CHOOSE r \in 1..Len(runs) : runs[r].run = last'.n

(* the non-empty texts of the answer are base64 *)
TextsDecode(a) ==
    \A x \in {a.compile_output, a.stderr, a.stdout} : x = "" \/ x \in DOMAIN Base64Table

(* the four parts of the report, each empty when its field is absent *)
StatusPart(a) ==
    IF a.hasStatus /\ a.description # "" THEN "Status: " \o a.description \o "\n" ELSE ""
CompilePart(a) ==
    IF a.compile_output # ""
    THEN "Compilation Output:\n" \o Base64Table[a.compile_output] \o "\n" ELSE ""
ErrorPart(a) ==
    IF a.stderr # "" THEN "Error:\n" \o Base64Table[a.stderr] \o "\n" ELSE ""
OutputPart(a) ==
    IF a.stdout # "" THEN "Output:\n" \o Base64Table[a.stdout] \o "\n" ELSE ""

NonePresent(a) ==
    /\ ~(a.hasStatus /\ a.description # "")
    /\ a.compile_output = ""
    /\ a.stderr = ""
    /\ a.stdout = ""

Report(a) ==
    IF NonePresent(a) THEN "Program executed successfully with no output."
    ELSE StatusPart(a) \o CompilePart(a) \o ErrorPart(a) \o OutputPart(a)

(* the output of entry k after this step is the report of answer k *)
CarriesReport(k) ==
    LET a == runs[CompletedRun].answers[k][1]
    IN testCases'[k].output = Some(Report(a))

(* C13, as claimed: for every answer with success=true the output text is  *)
(* the status line, the compilation output, the error output and the       *)
(* standard output, each if present, in this order, and the fixed message  *)
(* when none is present.                                                   *)
C13_ReportOfEverySuccess ==
    [][StepIs("run")
          => \A k \in 1..Len(runs[CompletedRun].answers) :
                LET a == runs[CompletedRun].answers[k][1]
                IN (a.kind = "json" /\ a.success /\ TextsDecode(a)) => CarriesReport(k)]_vars

(* C13, amended: the same for every answer with success=true that carries  *)
(* a result object whose non-empty texts are base64.                       *)
C13_ReportOfDecodedResult ==
    [][StepIs("run")
          => \A k \in 1..Len(runs[CompletedRun].answers) :
                LET a == runs[CompletedRun].answers[k][1]
                IN (a.kind = "json" /\ a.success /\ a.hasResult /\ TextsDecode(a))
                      => CarriesReport(k)]_vars

(* a run has completed on an answer that carries all four parts *)
C13_Witness ==
    /\ last.op = "run"
    /\ Len(testCases) = 1
    /\ testCases[1].output =
          Some("Status: Wrong Answer\nCompilation Output:\nwarn\nError:\noops\nOutput:\n5\n\n")

(* the failures the claim lists: the request failed in transport, the      *)
(* judge answered success=false, stderr is non-empty, or the status id is  *)
(* greater than 3                                                          *)
ListedFailure(a) ==
    \/ a.kind = "reject"
    \/ ~a.success
    \/ a.stderr # ""
    \/ (a.hasStatus /\ a.statusId > 3)

(* the answer says success=true and cannot be decoded: it has no result    *)
(* object, or one of its texts is not base64                               *)
Undecodable(a) ==
    a.kind = "json" /\ a.success /\ (~a.hasResult \/ ~TextsDecode(a))

(* C14, as claimed: after a run a test case has status error exactly when  *)
(* its request met one of the listed failures and status success in every  *)
(* other case; none is left pending.                                       *)
C14_ErrorExactlyWhenListed ==
    [][StepIs("run")
          => \A k \in 1..Len(runs[CompletedRun].answers) :
                LET a == runs[CompletedRun].answers[k][1]
                IN testCases'[k].status = IF ListedFailure(a) THEN "error" ELSE "success"]_vars

(* C14, amended: status error exactly when the request met one of the      *)
(* listed failures or its success=true answer cannot be decoded; status    *)
(* success in every other case; none is left pending.                      *)
C14_ErrorWhenListedOrUndecodable ==
    [][StepIs("run")
          => /\ Len(testCases') = Len(runs[CompletedRun].answers)
             /\ \A k \in 1..Len(runs[CompletedRun].answers) :
                   LET a == runs[CompletedRun].answers[k][1]
                   IN testCases'[k].status =
                         IF ListedFailure(a) \/ Undecodable(a) THEN "error" ELSE "success"]_vars

(* a run has completed on an answer whose only failure is the status id 4 *)
C14_Witness ==
    /\ last.op = "run"
    /\ Len(testCases) = 1
    /\ testCases[1].status = "error"
    /\ testCases[1].output = Some("Status: Wrong Answer\nOutput:\n5\n\n")

(* C15: at most one run is in flight at any time: no invocation of         *)
(* handleRun is suspended beside another one.                              *)
C15_AtMostOneRunInFlight == Len(runs) <= 1

(* C16: every started run releases the loading state.  The flag is reset   *)
(* by the completion of a handleRun invocation and by nothing else, so:    *)
(* whenever the flag is set, an invocation is pending that will reset it.  *)
C16_LoadingIsReleased == (Usable /\ isLoading) => Len(runs) >= 1

(* C17: opening the link encoded from a session yields a settled session   *)
(* whose language, files and testCases are the encoded ones.               *)
C17_ShareRoundTrip ==
    [][StepIs("openShared")
          => /\ language' = language
             /\ files' = files
             /\ testCases' = testCases]_vars

(* the value of a storage key, or the built-in default when it is absent *)
StoredOr(v, default) == IF v = None THEN default ELSE v[1]

(* what restoration from storage alone makes of the six fields *)
StoredTheme == StoredOr(storage.theme, "dark")
StoredLanguage == StoredOr(storage.language, "javascript")
StoredActiveFileId == StoredOr(storage.activeFileId, "1")
StoredTestCases == StoredOr(storage.testCases, DefaultTestCases)
StoredHistory == StoredOr(storage.executionHistory, <<>>)
StoredFiles == StoredOr(storage.files, DefaultFiles)

(* the stored files after the effects of the mount *)
StoredFilesSettled ==
    AfterEffects("javascript", "1", StoredFiles, StoredActiveFileId, StoredLanguage)

MalformedKinds == {"garbage", "badjson", "nofiles"}

(* C18: a malformed token (nothing decompressed, no valid JSON, or no       *)
(* files list) gives no field a value, raises no failure to the UI, and    *)
(* leaves the session that restoration from storage alone produces.        *)
C18_MalformedTokenIsIgnored ==
    [][(StepIs("load") /\ last'.id \in MalformedKinds)
          => /\ ~crashed'
             /\ theme' = StoredTheme
             /\ language' = StoredLanguage
             /\ activeFileId' = StoredActiveFileId
             /\ testCases' = StoredTestCases
             /\ history' = StoredHistory
             /\ files' = StoredFilesSettled]_vars

(* C19: on load a well-formed token determines language, files and         *)
(* testCases and nothing is restored from storage (theme and history keep  *)
(* their defaults); otherwise each of the six fields is restored from its  *)
(* storage key, or keeps its built-in default when the key is absent.      *)
C19_TokenOrStorage ==
    [][StepIs("load")
          => IF last'.id = "data"
             THEN LET tok == last'.tok[1]
                  IN /\ language' = tok.language
                     /\ testCases' = tok.testCases
                     /\ files' \in {tok.files, Reconcile(tok.files, activeFileId', tok.language)}
                     /\ activeFileId' \in FileIds(tok.files) \cup {"1"}
                     /\ theme' = "dark"
                     /\ history' = <<>>
             ELSE /\ theme' = StoredTheme
                  /\ language' = StoredLanguage
                  /\ activeFileId' = StoredActiveFileId
                  /\ testCases' = StoredTestCases
                  /\ history' = StoredHistory
                  /\ files' = StoredFilesSettled]_vars

(* C20: a reload without a share token restores a settled session whose    *)
(* language, files, activeFileId, testCases, history and theme are the     *)
(* ones of the session just before the reload.                             *)
C20_ReloadRestoresSession ==
    [][(StepIs("load") /\ last'.id = "none" /\ Usable)
          => /\ language' = language
             /\ files' = files
             /\ activeFileId' = activeFileId
             /\ testCases' = testCases
             /\ history' = history
             /\ theme' = theme]_vars

(* the name has no dot, or its last extension is, up to case, none of js,  *)
(* py, cpp, java, c                                                        *)
NotARecognizedName(name) ==
    Len(name) < 2 \/ toLowerCase(Pop(name)) \notin {"js", "py", "cpp", "java", "c"}

(* the step is saveEditing, whether or not it calls the rename callback *)
StepSavesEditing == last'.op \in {"renameFile", "renameRejected"}

(* C21: in the rename flow of the tab bar a new name without a dot, or     *)
(* whose last extension is (up to case) none of js, py, cpp, java, c, is   *)
(* rejected: the rename callback is not invoked, every file keeps name,    *)
(* content and language, and edit mode ends.                               *)
C21_BadNameIsRejected ==
    [][(StepSavesEditing /\ NotARecognizedName(last'.name))
          => /\ last'.op = "renameRejected"
             /\ files' = files
             /\ language' = language
             /\ editingId' = None]_vars

(* b.txt has just been turned down: no file carries that name and the tab  *)
(* is out of edit mode                                                     *)
C21_Witness ==
    /\ last.op = "renameRejected"
    /\ last.name = <<"b", "txt">>
    /\ editingId = None
    /\ \A i \in 1..Len(files) : files[i].name # <<"b", "txt">>

(* C22: file ids are pairwise distinct in every reachable state: each      *)
(* createFile gives the new file an id that no file of the session has.    *)
C22_FileIdsDistinct ==
    Usable => \A i, j \in 1..Len(files) : i # j => files[i].id # files[j].id

(* C23: test cases are never auto-deleted: committing the results of a run *)
(* removes no test case of the session and changes no test case's input,   *)
(* also for test cases added or edited while the run was in flight.        *)
C23_RunKeepsTestCases ==
    [][StepIs("run")
          => \A k \in 1..Len(testCases) :
                \E j \in 1..Len(testCases') :
                   /\ testCases'[j].id = testCases[k].id
                   /\ testCases'[j].input = testCases[k].input]_vars

(* s without its element at position k *)
Without(s, k) == SubSeq(s, 1, k - 1) \o SubSeq(s, k + 1, Len(s))

(* C24: with more than one file, deleteFile(id) removes exactly the file   *)
(* with that id and leaves the remaining files in their order with name,   *)
(* content and language unchanged; the first remaining file becomes active *)
(* if the deleted one was active, otherwise activeFileId is unchanged.     *)
C24_DeleteRemovesExactlyOne ==
    [][(StepIs("deleteFile") /\ Len(files) > 1 /\ HasFile(files, last'.id))
          => /\ files' = Without(files, FindIndex(files, last'.id))
             /\ activeFileId' = IF activeFileId = last'.id THEN files'[1].id
                                 ELSE activeFileId]_vars

(* C25: createFile(name) appends one file after all existing files and     *)
(* makes it the active file; in the settled state that file is named       *)
(* exactly name, its content is the starter template for name's extension  *)
(* (empty when there is none), and every file that existed is unchanged.   *)
C25_CreateAppendsNamedFile ==
    [][StepIs("createFile")
          => /\ Len(files') = Len(files) + 1
             /\ SubSeq(files', 1, Len(files)) = files
             /\ activeFileId' = files'[Len(files')].id
             /\ files'[Len(files')].name = last'.name
             /\ files'[Len(files')].content = getTemplateForFile(last'.name)]_vars

(* C26: selecting a file changes only activeFileId: every file has the     *)
(* same name, content and language tag in the settled state after          *)
(* selectFile(id) as before it, and the global language is unchanged,      *)
(* whatever the extension of the selected file.                            *)
C26_SelectChangesOnlyActiveId ==
    [][StepIs("selectFile") => (files' = files /\ language' = language)]_vars

C28_RestoreEqualsSnapshot ==
    [][StepIs("restore")
          => /\ language' = history[last'.n].language
             /\ files' = history[last'.n].files
             /\ testCases' = history[last'.n].testCases
             /\ history' = history]_vars

(* the page is opened with a well-formed token: a load or the opening of a *)
(* shared link whose token has a files list                                *)
StepLoadsToken == last'.op \in {"load", "openShared"} /\ last'.id = "data"

(* C29: loading the page with a well-formed share token leaves the         *)
(* execution history and the theme held in durable storage as they were    *)
(* before the load: the keys executionHistory and theme are not            *)
(* overwritten with default values.                                        *)
C29_TokenLoadKeepsStoredHistory ==
    [][StepLoadsToken
          => /\ storage.executionHistory # None
                   => storage'.executionHistory = storage.executionHistory
             /\ storage.theme # None => storage'.theme = storage.theme]_vars

(* the requests among reqs that the run numbered n has sent *)
RequestsIn(reqs, n) == SelectSeq(reqs, LAMBDA q : q.run = n)

(* the step ends a run of single-file mode, the one numbered last'.n *)
StepEndsSingleRun == last'.op = "runSingle"

(* the run that ends was suspended on its request, i.e. it had found the   *)
(* active file                                                             *)
EndingRunHadFile == \E r \in 1..Len(runs) : runs[r].run = last'.n

(* the stdin text of the session when the ending run was invoked *)
AskedInput == IF EndingRunHadFile THEN runs[CompletedRun].asked ELSE stdin

(* the ending run has sent one request, with the stdin text as its input *)
OneRequestWithStdin ==
    /\ Len(RequestsIn(requests', last'.n)) = 1
    /\ RequestsIn(requests', last'.n)[1].input = AskedInput

(* C30, as claimed: in single-file mode a run issues exactly one request,  *)
(* carrying the stdin text as input, and ends with the loading flag false, *)
(* whether the answer is a success, a failure reported by the judge or a   *)
(* transport error, and when the active file is missing.                   *)
C30_OneRequestThenReleased ==
    [][StepEndsSingleRun => (OneRequestWithStdin /\ isLoading' = FALSE)]_vars

(* C30, amended: a run that finds the active file issues exactly one       *)
(* request, carrying the stdin text as input, a run that does not find it  *)
(* issues none, and every run ends with the loading flag false.            *)
C30_OneRequestIfFileThenReleased ==
    [][StepEndsSingleRun
          => /\ IF EndingRunHadFile THEN OneRequestWithStdin
                ELSE RequestsIn(requests', last'.n) = <<>>
             /\ isLoading' = FALSE]_vars

(* a run without an active file has just ended: it sent nothing and the    *)
(* loading flag is down, while an earlier run did send its request         *)
C30_Witness ==
    /\ last.op = "runSingle"
    /\ ~HasActiveFile
    /\ RequestsIn(requests, last.n) = <<>>
    /\ ~isLoading
    /\ Len(requests) >= 1

====
